---------------------------- MODULE Spec2Model ----------------------------
(***************************************************************************)
(* Model of synchroniser.py: the Synchronizer class that mirrors a source  *)
(* directory tree onto a replica directory tree.                           *)
(*                                                                         *)
(* Paths are character strings, modelled as sequences of one-character     *)
(* strings ("/s/a" is << "/", "s", "/", "a" >>), so that str.replace and   *)
(* os.path.abspath act on them as they do in Python.  The filesystem is a  *)
(* function from the absolute paths that exist to their entries.  The      *)
(* process runs as the unprivileged owner of both trees, so the owner      *)
(* permission bits (r = 4, w = 2, x = 1) decide which system calls fail.   *)
(***************************************************************************)
EXTENDS Integers, Sequences, FiniteSets, TLC

VARIABLES
    fs,                     \* the filesystem: absolute path -> entry
    source_path,            \* self.source_path
    replica_path,           \* self.replica_path
    pc,                     \* position of the process in start / synchronize_folders
    is_remove_successful,   \* local of synchronize_folders
    is_update_successful,   \* local of synchronize_folders
    log,                    \* the messages log_message wrote in the current cycle
    ops,                    \* the mutating system calls that succeeded in the current cycle
    fs_start,               \* the filesystem when the current cycle started
    raised,                 \* where an unhandled exception left the process, or "none"
    prev,                   \* the two results of the cycle before the current one, or <<>>
    results_in,             \* argument of a direct call of calculate_operation_result
    results_out             \* its return value

vars == << fs, source_path, replica_path, pc, is_remove_successful,
           is_update_successful, log, ops, fs_start, raised, prev,
           results_in, results_out >>

(***************************************************************************)
(* Outcomes of an operation.                                               *)
(***************************************************************************)
Error == -1
Changed == 1
Unchanged == 0

None == << "None" >>   \* the value of a call that returns nothing

(***************************************************************************)
(* Bounds of the model.                                                    *)
(***************************************************************************)
MaxDepth == 2        \* deepest entry below a root
MaxEntries == 2      \* entries below the two roots, both trees together
MaxResults == 4      \* longest list given directly to calculate_operation_result

Names == {"a", "b"}                 \* file and directory names (one character)
Modes == {7, 5, 3}                  \* rwx, r-x, -wx
Contents == {<< >>, <<1>>, <<2>>}   \* file contents, as byte strings

SEP == "/"
cwd == << SEP >>                    \* the working directory of the process

(***************************************************************************)
(* Strings.                                                                *)
(***************************************************************************)
StartsWith(s, p) ==
    /\ Len(p) <= Len(s)
    /\ SubSeq(s, 1, Len(p)) = p

Drop(s, n) == SubSeq(s, n + 1, Len(s))

\* str.replace(old, new): every non-overlapping occurrence, left to right
RECURSIVE replace(_, _, _)
replace(s, old, new) ==
    IF s = << >> THEN << >>
    ELSE IF old # << >> /\ StartsWith(s, old)
         THEN new \o replace(Drop(s, Len(old)), old, new)
         ELSE << s[1] >> \o replace(Drop(s, 1), old, new)

\* str.split(SEP)
RECURSIVE split(_, _, _)
split(s, i, cur) ==
    IF i > Len(s) THEN << cur >>
    ELSE IF s[i] = SEP THEN << cur >> \o split(s, i + 1, << >>)
         ELSE split(s, i + 1, Append(cur, s[i]))

\* os.path.normpath on the components of a path: "" and "." are dropped,
\* ".." removes the component before it
RECURSIVE normcomps(_, _, _)
normcomps(comps, i, acc) ==
    IF i > Len(comps) THEN acc
    ELSE LET c == comps[i] IN
         IF c = << >> \/ c = << "." >> THEN normcomps(comps, i + 1, acc)
         ELSE IF c = << ".", "." >>
              THEN normcomps(comps, i + 1,
                             IF acc = << >> THEN acc ELSE SubSeq(acc, 1, Len(acc) - 1))
              ELSE normcomps(comps, i + 1, Append(acc, c))

RECURSIVE joincomps(_, _)
joincomps(comps, i) ==
    IF i > Len(comps) THEN << >>
    ELSE << SEP >> \o comps[i] \o joincomps(comps, i + 1)

isabs(p) == p # << >> /\ p[1] = SEP

\* os.path.join(a, b)
join(a, b) ==
    IF isabs(b) THEN b
    ELSE IF a = << >> \/ a[Len(a)] = SEP THEN a \o b
         ELSE a \o << SEP >> \o b

\* os.path.abspath(path) = normpath(join(os.getcwd(), path))
abspath(p) ==
    LET n == joincomps(normcomps(split(join(cwd, p), 1, << >>), 1, << >>), 1)
    IN  IF n = << >> THEN << SEP >> ELSE n

\* os.path.dirname of an absolute, normalised path
RECURSIVE dirname(_)
dirname(q) ==
    IF Len(q) <= 1 THEN << SEP >>
    ELSE IF q[Len(q)] = SEP
         THEN (IF Len(q) = 1 THEN q ELSE SubSeq(q, 1, Len(q) - 1))
         ELSE dirname(SubSeq(q, 1, Len(q) - 1))

(***************************************************************************)
(* The filesystem.  An entry is a directory or a regular file with its     *)
(* owner permission bits; a file also has its content.  "/" is the parent  *)
(* of the roots: it exists and the process cannot write to it.             *)
(***************************************************************************)
Dir(m) == [kind |-> "dir", mode |-> m, data |-> << >>]
File(m, c) == [kind |-> "file", mode |-> m, data |-> c]

Has(f, q) == q = << SEP >> \/ q \in DOMAIN f
EntryAt(f, q) == IF q = << SEP >> THEN Dir(5) ELSE f[q]

CanRead(m) == (m \div 4) % 2 = 1
CanWrite(m) == (m \div 2) % 2 = 1
CanSearch(m) == m % 2 = 1

\* every directory on the way to q exists and can be searched
RECURSIVE Reachable(_, _)
Reachable(f, q) ==
    IF q = << SEP >> THEN TRUE
    ELSE LET d == dirname(q) IN
         /\ Has(f, d)
         /\ EntryAt(f, d).kind = "dir"
         /\ CanSearch(EntryAt(f, d).mode)
         /\ Reachable(f, d)

\* os.stat succeeds on the absolute path q
StatOk(f, q) == Has(f, q) /\ Reachable(f, q)

\* an entry can be created in or removed from the directory d
DirWritable(f, d) ==
    /\ StatOk(f, d)
    /\ EntryAt(f, d).kind = "dir"
    /\ CanWrite(EntryAt(f, d).mode) /\ CanSearch(EntryAt(f, d).mode)

Children(f, q) == {c \in DOMAIN f : c # q /\ dirname(c) = q}

Put(f, q, e) == [c \in DOMAIN f \cup {q} |-> IF c = q THEN e ELSE f[c]]
Del(f, q) == [c \in DOMAIN f \ {q} |-> f[c]]

\* The state the walk threads through its calls: the filesystem, the log and
\* the mutating system calls that succeeded.
Did(w, op, q) == [w EXCEPT !.ops = Append(@, << op, q >>)]
Logged(w, msg, p) == [w EXCEPT !.log = Append(@, << msg, p >>)]

(***************************************************************************)
(* System calls.  The kernel resolves the path it is given against the     *)
(* working directory; X_at is the call X on the resolved path.             *)
(***************************************************************************)
\* os.path.exists, os.path.isdir: False when stat fails
exists(w, p) == StatOk(w.fs, abspath(p))

isdir_at(f, q) == StatOk(f, q) /\ EntryAt(f, q).kind = "dir"
isdir(w, p) == isdir_at(w.fs, abspath(p))

\* st_size of a directory
DirSize == 4096

\* os.path.getsize(p): [ok, val]
getsize_at(f, q) ==
    IF ~StatOk(f, q) THEN [ok |-> FALSE, val |-> 0]
    ELSE [ok |-> TRUE,
          val |-> IF EntryAt(f, q).kind = "dir" THEN DirSize ELSE Len(EntryAt(f, q).data)]
getsize(w, p) == getsize_at(w.fs, abspath(p))

\* os.stat(p).st_mode: the file type and the permission bits; [ok, val]
st_mode_at(f, q) ==
    IF ~StatOk(f, q) THEN [ok |-> FALSE, val |-> << >>]
    ELSE [ok |-> TRUE, val |-> << EntryAt(f, q).kind, EntryAt(f, q).mode >>]
st_mode(w, p) == st_mode_at(w.fs, abspath(p))

\* os.listdir(p) in the enumeration order ord: [ok, val]
listdir_at(f, q, ord) ==
    IF ~(isdir_at(f, q) /\ CanRead(EntryAt(f, q).mode))
    THEN [ok |-> FALSE, val |-> << >>]
    ELSE [ok |-> TRUE,
          val |-> SelectSeq(ord, LAMBDA n : join(q, << n >>) \in DOMAIN f)]
listdir(w, p, ord) == listdir_at(w.fs, abspath(p), ord)

\* os.chmod(p, st_mode): the owner sets the permission bits; [w, ok]
chmod_at(w, q, m) ==
    IF ~StatOk(w.fs, q) \/ q = << SEP >> THEN [w |-> w, ok |-> FALSE]
    ELSE [w |-> Did([w EXCEPT !.fs = Put(@, q, [@[q] EXCEPT !.mode = m[2]])],
                    "chmod", q),
          ok |-> TRUE]
chmod(w, p, m) == chmod_at(w, abspath(p), m)

\* os.mkdir(p): [w, ok]
mkdir_at(w, q) ==
    IF Has(w.fs, q) \/ ~DirWritable(w.fs, dirname(q)) THEN [w |-> w, ok |-> FALSE]
    ELSE [w |-> Did([w EXCEPT !.fs = Put(@, q, Dir(7))], "mkdir", q), ok |-> TRUE]
mkdir(w, p) == mkdir_at(w, abspath(p))

\* os.remove(p), os.unlink(p): [w, ok]
unlink_at(w, q) ==
    IF ~(Has(w.fs, q) /\ EntryAt(w.fs, q).kind = "file" /\ DirWritable(w.fs, dirname(q)))
    THEN [w |-> w, ok |-> FALSE]
    ELSE [w |-> Did([w EXCEPT !.fs = Del(@, q)], "unlink", q), ok |-> TRUE]
unlink(w, p) == unlink_at(w, abspath(p))

\* os.rmdir(p): [w, ok]
rmdir_at(w, q) ==
    IF ~(/\ Has(w.fs, q) /\ q # << SEP >>
         /\ EntryAt(w.fs, q).kind = "dir"
         /\ Children(w.fs, q) = {}
         /\ DirWritable(w.fs, dirname(q)))
    THEN [w |-> w, ok |-> FALSE]
    ELSE [w |-> Did([w EXCEPT !.fs = Del(@, q)], "rmdir", q), ok |-> TRUE]

\* open(p, 'rb') succeeds
Readable_at(f, q) ==
    StatOk(f, q) /\ EntryAt(f, q).kind = "file" /\ CanRead(EntryAt(f, q).mode)
Readable(w, p) == Readable_at(w.fs, abspath(p))

\* open(d, 'wb') succeeds: d is created, or is a file that can be written
Writable_at(f, d) ==
    IF Has(f, d)
    THEN Reachable(f, d) /\ EntryAt(f, d).kind = "file" /\ CanWrite(EntryAt(f, d).mode)
    ELSE DirWritable(f, dirname(d))

\* shutil.copy(src, dst), shutil.copy2(src, dst): the content and the
\* permission bits of src are written to dst (into dst when it is a
\* directory); src is opened before dst: [w, ok]
copy_at(w, s, d) ==
    IF ~(Readable_at(w.fs, s) /\ Writable_at(w.fs, d)) THEN [w |-> w, ok |-> FALSE]
    ELSE [w |-> Did([w EXCEPT !.fs = Put(@, d, File(@[s].mode, @[s].data))], "write", d),
          ok |-> TRUE]
copy_into(w, s, d) ==
    copy_at(w, s, IF isdir_at(w.fs, d) THEN join(d, << s[Len(s)] >>) ELSE d)
copy(w, src, dst) == copy_into(w, abspath(src), abspath(dst))

\* shutil.rmtree on the absolute path q: the entries of q are removed in
\* enumeration order, then q itself; the first failure raises and leaves
\* what was not yet removed
RECURSIVE rmtree_at(_, _, _), rmtree_entries(_, _, _, _, _), rmtree_entry(_, _, _)
rmtree_rmdir(r, q) == IF ~r.ok THEN r ELSE rmdir_at(r.w, q)

rmtree_listed(w, q, l, ord) ==
    IF ~l.ok THEN [w |-> w, ok |-> FALSE]
    ELSE rmtree_rmdir(rmtree_entries(w, q, l.val, 1, ord), q)

rmtree_at(w, q, ord) == rmtree_listed(w, q, listdir_at(w.fs, q, ord), ord)

rmtree_entry(w, c, ord) ==
    IF isdir_at(w.fs, c) THEN rmtree_at(w, c, ord) ELSE unlink_at(w, c)

rmtree_next(r, q, names, i, ord) ==
    IF ~r.ok THEN r ELSE rmtree_entries(r.w, q, names, i + 1, ord)

rmtree_entries(w, q, names, i, ord) ==
    IF i > Len(names) THEN [w |-> w, ok |-> TRUE]
    ELSE rmtree_next(rmtree_entry(w, join(q, << names[i] >>), ord), q, names, i, ord)

rmtree(w, p, ord) == rmtree_at(w, abspath(p), ord)

(***************************************************************************)
(* The Synchronizer.  A call returns the state it leaves, its result, and  *)
(* exc = TRUE when it ends by raising an exception instead of returning.   *)
(* A method is written as one operator per statement, each taking the      *)
(* values the statements before it computed.                               *)
(***************************************************************************)
Return(w, res) == [w |-> w, res |-> res, exc |-> FALSE, skip |-> FALSE]
Raise(w) == [w |-> w, res |-> None, exc |-> TRUE, skip |-> FALSE]
\* a loop iteration that appends nothing to the results
Skip(w) == [w |-> w, res |-> None, exc |-> FALSE, skip |-> TRUE]

\* Synchronizer.log_message
log_message(w, msg, p) == Logged(w, msg, p)

\* hashlib.sha256 of the bytes read, taken to be free of collisions
sha256(data) == << "sha256", data >>

\* Synchronizer.file_hash: the digest, or None after a failed read; [w, val]
file_hash_at(w, q, file_path) ==
    IF Readable_at(w.fs, q)
    THEN [w |-> w, val |-> sha256(EntryAt(w.fs, q).data)]
    ELSE [w |-> log_message(w, "Error hashing file", file_path), val |-> None]
file_hash(w, file_path) == file_hash_at(w, abspath(file_path), file_path)

\* Synchronizer.compare_files, lines 162-164
compare_modes(w, mode1, mode2) ==
    IF ~mode1.ok \/ ~mode2.ok THEN Raise(w)
    ELSE IF mode1.val # mode2.val THEN Return(w, FALSE)
    ELSE Return(w, TRUE)

\* Synchronizer.compare_files, lines 160-161
compare_hashes(hash1, hash2, file1, file2) ==
    IF hash1.val # hash2.val THEN Return(hash2.w, FALSE)
    ELSE compare_modes(hash2.w, st_mode(hash2.w, file1), st_mode(hash2.w, file2))

compare_hash2(hash1, file1, file2) ==
    compare_hashes(hash1, file_hash(hash1.w, file2), file1, file2)

\* Synchronizer.compare_files, lines 158-159
compare_sizes(w, size1, size2, file1, file2) ==
    IF ~size1.ok \/ ~size2.ok THEN Raise(w)
    ELSE IF size1.val # size2.val THEN Return(w, FALSE)
    ELSE compare_hash2(file_hash(w, file1), file1, file2)

\* Synchronizer.compare_files
compare_files(w, file1, file2) ==
    compare_sizes(w, getsize(w, file1), getsize(w, file2), file1, file2)

\* calculate_operation_result with the two tests in the other order: CHANGED
\* wins over ERROR
calculate_operation_result_changed_first(operations_results) ==
    IF \E i \in 1..Len(operations_results) : operations_results[i] = 1 THEN 1
    ELSE IF \E i \in 1..Len(operations_results) : operations_results[i] = -1 THEN -1
    ELSE 0

\* Synchronizer.calculate_operation_result
calculate_operation_result(operations_results) ==
    IF \E i \in 1..Len(operations_results) : operations_results[i] = -1 THEN -1
    ELSE IF ~(\E i \in 1..Len(operations_results) : operations_results[i] = 1) THEN 0
    ELSE 1

\* Synchronizer.list_files: [ok, val]; ok = FALSE when os.listdir raises
list_files_joined(abs_directory, l) ==
    [ok |-> l.ok,
     val |-> [i \in 1..Len(l.val) |-> join(abs_directory, << l.val[i] >>)]]
list_files(w, directory_path, ord) ==
    list_files_joined(abspath(directory_path), listdir(w, directory_path, ord))

\* Synchronizer.update_file, lines 84-89
update_file_copied(removed, copied, replica_file) ==
    IF ~copied.ok
    THEN Return(log_message(removed.w, "Failed to update file", replica_file), -1)
    ELSE Return(log_message(copied.w, "Updated file", replica_file), 1)

\* Synchronizer.update_file, lines 83-84
update_file_removed(removed, source_file, replica_file) ==
    IF ~removed.ok
    THEN Return(log_message(removed.w, "Failed to update file", replica_file), -1)
    ELSE update_file_copied(removed, copy(removed.w, source_file, replica_file),
                            replica_file)

\* Synchronizer.update_file
update_file(w, source_file, replica_file) ==
    update_file_removed(unlink(w, replica_file), source_file, replica_file)

\* Synchronizer.create_file, lines 95-99
create_file_copied(copied, source_file, replica_file) ==
    IF ~copied.ok
    THEN Return(log_message(copied.w, "Failed to create file", replica_file), -1)
    ELSE Return(log_message(copied.w, "Created file", source_file), 1)

\* Synchronizer.create_file
create_file(w, source_file, replica_file) ==
    create_file_copied(copy(w, source_file, replica_file), source_file, replica_file)

RECURSIVE update_content_from(_, _, _, _, _)

\* Synchronizer.update_directory, lines 76-79
update_directory_updated(updated, replica_dir) ==
    IF updated.exc
    THEN Return(log_message(updated.w, "Error updating directory", replica_dir), -1)
    ELSE updated

\* Synchronizer.update_directory, lines 75-76
update_directory_listed(w, source_files, replica_dir, ord) ==
    IF ~source_files.ok
    THEN Return(log_message(w, "Error updating directory", replica_dir), -1)
    ELSE update_directory_updated(
             update_content_from(w, source_files.val, 1, << >>, ord), replica_dir)

\* Synchronizer.update_directory, lines 74-75
update_directory_moded(moded, source_dir, replica_dir, ord) ==
    IF ~moded.ok
    THEN Return(log_message(moded.w, "Error updating directory", replica_dir), -1)
    ELSE update_directory_listed(moded.w, list_files(moded.w, source_dir, ord),
                                 replica_dir, ord)

\* Synchronizer.update_directory, line 74
update_directory_stat(w, mode, source_dir, replica_dir, ord) ==
    IF ~mode.ok
    THEN Return(log_message(w, "Error updating directory", replica_dir), -1)
    ELSE update_directory_moded(chmod(w, replica_dir, mode.val),
                                source_dir, replica_dir, ord)

\* Synchronizer.update_directory
update_directory(w, source_dir, replica_dir, ord) ==
    update_directory_stat(w, st_mode(w, source_dir), source_dir, replica_dir, ord)

\* Synchronizer.create_directory, lines 105-111
create_directory_moded(moded, source_dir, replica_dir, ord) ==
    IF ~moded.ok
    THEN Return(log_message(moded.w, "Failed to create directory", replica_dir), -1)
    ELSE update_directory(log_message(moded.w, "Created directory", replica_dir),
                          source_dir, replica_dir, ord)

\* Synchronizer.create_directory, line 105
create_directory_stat(w, mode, source_dir, replica_dir, ord) ==
    IF ~mode.ok
    THEN Return(log_message(w, "Failed to create directory", replica_dir), -1)
    ELSE create_directory_moded(chmod(w, replica_dir, mode.val),
                                source_dir, replica_dir, ord)

\* Synchronizer.create_directory, lines 104-105
create_directory_made(made, source_dir, replica_dir, ord) ==
    IF ~made.ok
    THEN Return(log_message(made.w, "Failed to create directory", replica_dir), -1)
    ELSE create_directory_stat(made.w, st_mode(made.w, source_dir),
                               source_dir, replica_dir, ord)

\* Synchronizer.create_directory
create_directory(w, source_dir, replica_dir, ord) ==
    create_directory_made(mkdir(w, replica_dir), source_dir, replica_dir, ord)

\* Synchronizer.update_content, lines 53-55, after compare_files returned
update_entry_compared(same, entry, entry_replica_path) ==
    IF same.exc THEN Raise(same.w)
    ELSE IF ~same.res THEN update_file(same.w, entry, entry_replica_path)
    ELSE Skip(same.w)

\* Synchronizer.update_content, lines 46-58: one entry of source_files
update_entry(w, entry, entry_replica_path, ord) ==
    IF ~exists(w, entry_replica_path)
    THEN IF isdir(w, entry)
         THEN create_directory(w, entry, entry_replica_path, ord)
         ELSE create_file(w, entry, entry_replica_path)
    ELSE IF ~isdir(w, entry)
    THEN update_entry_compared(compare_files(w, entry, entry_replica_path),
                               entry, entry_replica_path)
    ELSE update_directory(w, entry, entry_replica_path, ord)

\* line 44 with the two roots exchanged
entry_replica_path_reversed(entry) == replace(entry, replica_path, source_path)

\* Synchronizer.update_content, line 44: the replica path of a source entry
entry_replica_path(entry) == replace(entry, source_path, replica_path)

\* Synchronizer.update_content: the loop goes on after the i-th entry gave r
update_content_next(r, source_files, i, operations_results, ord) ==
    IF r.exc THEN Raise(r.w)
    ELSE update_content_from(r.w, source_files, i + 1,
                             IF r.skip THEN operations_results
                             ELSE Append(operations_results, r.res),
                             ord)

\* Synchronizer.update_content: the loop from the i-th entry on, with the
\* operations_results collected so far
update_content_from(w, source_files, i, operations_results, ord) ==
    IF i > Len(source_files)
    THEN Return(w, calculate_operation_result(operations_results))
    ELSE update_content_next(
             update_entry(w, source_files[i],
                          entry_replica_path(source_files[i]), ord),
             source_files, i, operations_results, ord)

\* Synchronizer.update_content
update_content(w, source_files, ord) ==
    update_content_from(w, source_files, 1, << >>, ord)

\* Synchronizer.remove_directory
remove_directory_removed(removed, directory_path) ==
    IF ~removed.ok
    THEN Return(log_message(removed.w, "Failed to remove directory", directory_path), -1)
    ELSE Return(log_message(removed.w, "Removed directory", directory_path), 1)
remove_directory(w, directory_path, ord) ==
    remove_directory_removed(rmtree(w, directory_path, ord), directory_path)

\* Synchronizer.remove_file
remove_file_removed(removed, file_path) ==
    IF ~removed.ok
    THEN Return(log_message(removed.w, "Failed to remove file", file_path), -1)
    ELSE Return(log_message(removed.w, "Removed file", file_path), 1)
remove_file(w, file_path) == remove_file_removed(unlink(w, file_path), file_path)

RECURSIVE remove_content_from(_, _, _, _, _)

\* Synchronizer.remove_content, line 128: the recursive call on the listing
remove_entry_listed(w, inner_files, ord) ==
    IF ~inner_files.ok THEN Raise(w)
    ELSE remove_content_from(w, inner_files.val, 1, << >>, ord)

\* Synchronizer.remove_content, lines 119-128: one entry of replica_files
remove_entry(w, entry, entry_source_path, ord) ==
    IF ~exists(w, entry_source_path)
    THEN IF isdir(w, entry)
         THEN remove_directory(w, entry, ord)
         ELSE remove_file(w, entry)
    ELSE IF isdir(w, entry)
    THEN remove_entry_listed(w, list_files(w, entry, ord), ord)
    ELSE Skip(w)

\* Synchronizer.remove_content, line 117: the source path of a replica entry
entry_source_path(entry) == replace(entry, replica_path, source_path)

\* Synchronizer.remove_content: the loop goes on after the i-th entry gave r
remove_content_next(r, replica_files, i, operands_results, ord) ==
    IF r.exc THEN Raise(r.w)
    ELSE remove_content_from(r.w, replica_files, i + 1,
                             IF r.skip THEN operands_results
                             ELSE Append(operands_results, r.res),
                             ord)

\* Synchronizer.remove_content: the loop from the i-th entry on, with the
\* operands_results collected so far
remove_content_from(w, replica_files, i, operands_results, ord) ==
    IF i > Len(replica_files)
    THEN Return(w, calculate_operation_result(operands_results))
    ELSE remove_content_next(
             remove_entry(w, replica_files[i],
                          entry_source_path(replica_files[i]), ord),
             replica_files, i, operands_results, ord)

\* Synchronizer.remove_content
remove_content(w, replica_files, ord) ==
    remove_content_from(w, replica_files, 1, << >>, ord)

(***************************************************************************)
(* Initial states: the two roots, each present (rwx) or missing, and below *)
(* them every well-formed pair of trees with at most MaxEntries entries in *)
(* all, none deeper than MaxDepth.  The roots are /s and /r, whose names   *)
(* no entry bears, or /a and /b, whose names entries do bear.              *)
(***************************************************************************)
SourceRoot == << SEP, "s" >>
ReplicaRoot == << SEP, "r" >>
RootPairs == {<< SourceRoot, ReplicaRoot >>, << << SEP, "a" >>, << SEP, "b" >> >>}

RECURSIVE PathsBelow(_, _)
PathsBelow(roots, depth) ==
    IF depth = 0 THEN {}
    ELSE LET level == {join(d, << n >>) : d \in roots, n \in Names}
         IN  level \cup PathsBelow(level, depth - 1)

\* the sets of at most n paths below the roots that hold the parent of each member
RECURSIVE PathSets(_, _)
PathSets(roots, n) ==
    IF n = 0 THEN {{}}
    ELSE LET smaller == PathSets(roots, n - 1) IN
         smaller \cup
         UNION {{P \cup {q} : q \in {c \in PathsBelow(roots, MaxDepth) :
                                        dirname(c) \in P \cup roots}} :
                P \in smaller}

Entries == {Dir(m) : m \in Modes} \cup {File(m, c) : m \in Modes, c \in Contents}

\* f gives every path of P that holds another path of P a directory
WellFormed(P, f) ==
    \A q \in P : (\E c \in P : c # q /\ dirname(c) = q) => f[q].kind = "dir"

Orders == {<< "a", "b" >>, << "b", "a" >>}   \* enumeration orders of os.listdir

World(f) == [fs |-> f, log |-> << >>, ops |-> << >>]

Init ==
    /\ \E roots \in RootPairs :
         source_path = roots[1] /\ replica_path = roots[2]
    /\ \E roots \in SUBSET {source_path, replica_path} :
       \E P \in PathSets(roots, MaxEntries) :
       \E f \in [P -> Entries] :
         /\ WellFormed(P, f)
         /\ fs = [q \in roots \cup P |-> IF q \in roots THEN Dir(7) ELSE f[q]]
    /\ fs_start = fs
    /\ pc = "sync"
    /\ is_remove_successful = 0     \* the locals are unbound until pc passes
    /\ is_update_successful = 0     \* the line that assigns them
    /\ log = << >>
    /\ ops = << >>
    /\ raised = "none"
    /\ prev = << >>
    /\ results_in = << >>
    /\ results_out = 0

(***************************************************************************)
(* Synchronizer.synchronize_folders.  A pass of it ends with the state it  *)
(* leaves, its result, and the place an exception left it from, if any.    *)
(***************************************************************************)
Pass(r, content) ==
    [w |-> r.w, res |-> r.res, raised |-> IF r.exc THEN content ELSE "none"]

\* line 31: self.remove_content(self.list_files(self.replica_path))
remove_pass_listed(w, replica_files, ord) ==
    IF ~replica_files.ok
    THEN [w |-> w, res |-> None, raised |-> "list_files(replica_path)"]
    ELSE Pass(remove_content(w, replica_files.val, ord), "remove_content")
remove_pass(w, ord) == remove_pass_listed(w, list_files(w, replica_path, ord), ord)

\* line 32: self.update_content(self.list_files(self.source_path))
update_pass_listed(w, source_files, ord) ==
    IF ~source_files.ok
    THEN [w |-> w, res |-> None, raised |-> "list_files(source_path)"]
    ELSE Pass(update_content(w, source_files.val, ord), "update_content")
update_pass(w, ord) == update_pass_listed(w, list_files(w, source_path, ord), ord)

\* the summary line with "or" for the "and" of line 35
Summary_or(remove_result, update_result) ==
    IF remove_result = 0 /\ update_result = 0
    THEN "No changes were necessary."
    ELSE IF remove_result # -1 \/ update_result # -1
    THEN "Synchronization completed successfully."
    ELSE "Errors occurred during synchronization."

\* lines 33-38: the summary line
Summary(remove_result, update_result) ==
    IF remove_result = 0 /\ update_result = 0
    THEN "No changes were necessary."
    ELSE IF remove_result # -1 /\ update_result # -1
    THEN "Synchronization completed successfully."
    ELSE "Errors occurred during synchronization."

(***************************************************************************)
(* synchronize_folders, lines 30-31: the start message, the listing of the *)
(* replica root and the prune pass.                                        *)
(***************************************************************************)
SyncRemove ==
    /\ pc = "sync"
    /\ \E ord \in Orders :
       \E r \in {remove_pass(log_message(World(fs), "Start of synchronization", << >>),
                             ord)} :
         /\ fs_start' = fs
         /\ fs' = r.w.fs
         /\ log' = r.w.log
         /\ ops' = r.w.ops
         /\ raised' = r.raised
         /\ pc' = IF r.raised = "none" THEN "update" ELSE "terminated"
         /\ is_remove_successful' =
                IF r.raised = "none" THEN r.res ELSE is_remove_successful
    /\ UNCHANGED << source_path, replica_path, is_update_successful, prev,
                    results_in, results_out >>

(***************************************************************************)
(* synchronize_folders, line 32: the listing of the source root and the    *)
(* mirror pass.                                                            *)
(***************************************************************************)
SyncUpdate ==
    /\ pc = "update"
    /\ \E ord \in Orders :
       \E r \in {update_pass([fs |-> fs, log |-> log, ops |-> ops], ord)} :
         /\ fs' = r.w.fs
         /\ log' = r.w.log
         /\ ops' = r.w.ops
         /\ raised' = r.raised
         /\ pc' = IF r.raised = "none" THEN "summary" ELSE "terminated"
         /\ is_update_successful' =
                IF r.raised = "none" THEN r.res ELSE is_update_successful
    /\ UNCHANGED << source_path, replica_path, is_remove_successful, fs_start,
                    prev, results_in, results_out >>

(***************************************************************************)
(* synchronize_folders, lines 33-38: the summary line.                     *)
(***************************************************************************)
SyncSummary ==
    /\ pc = "summary"
    /\ log' = Append(log, << Summary(is_remove_successful, is_update_successful), << >> >>)
    /\ pc' = "sleep"
    /\ UNCHANGED << fs, source_path, replica_path, is_remove_successful,
                    is_update_successful, ops, fs_start, raised, prev,
                    results_in, results_out >>

(***************************************************************************)
(* Synchronizer.start, lines 183-185: after time.sleep the loop calls      *)
(* synchronize_folders again.  prev keeps the results of the cycle that    *)
(* just ended.                                                             *)
(***************************************************************************)
Sleep ==
    /\ pc = "sleep"
    /\ pc' = "sync"
    /\ prev' = << is_remove_successful, is_update_successful >>
    /\ UNCHANGED << fs, source_path, replica_path, is_remove_successful,
                    is_update_successful, log, ops, fs_start, raised,
                    results_in, results_out >>

Next == SyncRemove \/ SyncUpdate \/ SyncSummary \/ Sleep

Spec == Init /\ [][Next]_vars

(***************************************************************************)
(* Direct calls of calculate_operation_result on every list of at most     *)
(* MaxResults outcomes, and again on the same outcomes in another order.   *)
(***************************************************************************)
Outcomes == {-1, 0, 1}

InitAgg ==
    /\ results_in \in UNION {[1..n -> Outcomes] : n \in 0..MaxResults}
    /\ results_out = 0
    /\ pc = "call"
    /\ prev = << >>
    /\ fs = << >> /\ fs_start = << >>
    /\ source_path = SourceRoot /\ replica_path = ReplicaRoot
    /\ is_remove_successful = 0 /\ is_update_successful = 0
    /\ log = << >> /\ ops = << >>
    /\ raised = "none"

Calculate ==
    /\ pc = "call"
    /\ results_out' = calculate_operation_result(results_in)
    /\ pc' = "returned"
    /\ UNCHANGED << fs, source_path, replica_path, is_remove_successful,
                    is_update_successful, log, ops, fs_start, raised, prev,
                    results_in >>

\* two elements of the list change places; prev keeps the result before
Reorder ==
    /\ pc = "returned"
    /\ \E i, j \in 1..Len(results_in) :
         /\ i < j
         /\ results_in[i] # results_in[j]
         /\ results_in' = [results_in EXCEPT ![i] = results_in[j],
                                             ![j] = results_in[i]]
    /\ prev' = << results_out >>
    /\ pc' = "call"
    /\ UNCHANGED << fs, source_path, replica_path, is_remove_successful,
                    is_update_successful, log, ops, fs_start, raised,
                    results_out >>

NextAgg == Calculate \/ Reorder

AggSpec == InitAgg /\ [][NextAgg]_vars

(***************************************************************************)
(* Properties.                                                             *)
(***************************************************************************)
\* the paths of f below root, and a path relative to its root
Below(f, root) == {q \in DOMAIN f : StartsWith(q, root \o << SEP >>)}
Rel(q, root) == Drop(q, Len(root))
InSource(q) == source_path \o Rel(q, replica_path)
InReplica(q) == replica_path \o Rel(q, source_path)

CycleCompleted == pc = "sleep"
LastLine == log[Len(log)][1]
SummaryLines ==
    {"No changes were necessary.", "Synchronization completed successfully.",
     "Errors occurred during synchronization."}
Touched(q) == \E i \in 1..Len(ops) : ops[i][2] = q

\* the process can read every source entry, and read and write every
\* replica entry
SourceReadable(f) == \A q \in Below(f, source_path) : CanRead(f[q].mode)
ReplicaOpen(f) == \A q \in Below(f, replica_path) : f[q].mode = 7

\* C1 (mirror invariant): after a cycle the replica holds exactly the
\* relative paths of the source, each with the kind, the content and the
\* permission bits of the source entry.  Stated for the trees whose source
\* entries the process can read and whose replica entries it can read and
\* write; a file may face a directory, and a source directory may be r-x.
MirrorInvariant ==
    (CycleCompleted /\ SourceReadable(fs_start) /\ ReplicaOpen(fs_start)) =>
        /\ {Rel(q, replica_path) : q \in Below(fs, replica_path)}
               = {Rel(q, source_path) : q \in Below(fs, source_path)}
        /\ \A q \in Below(fs, source_path) :
               InReplica(q) \in DOMAIN fs /\ fs[InReplica(q)] = fs[q]

\* C2 (deletion correctness): after a cycle no replica entry is left that
\* had no source entry at its relative path when the cycle started.
DeletionCorrectness ==
    CycleCompleted =>
        \A q \in Below(fs_start, replica_path) :
            InSource(q) \notin DOMAIN fs_start => q \notin DOMAIN fs

\* C3 (idempotence): the cycle after a cycle without ERROR returns UNCHANGED
\* from both passes, makes no mutating system call, and logs "No changes
\* were necessary.".
Idempotence ==
    (CycleCompleted /\ prev # << >> /\ prev[1] # -1 /\ prev[2] # -1) =>
        /\ is_remove_successful = 0
        /\ is_update_successful = 0
        /\ ops = << >>
        /\ LastLine = "No changes were necessary."

\* C4 (update correctness): in the mirror pass a replica file whose source
\* file differs from it in content or permission bits is overwritten with
\* the source file, and a replica file equal to its source file is not
\* touched by any mutating system call.
UpdateCorrectness ==
    CycleCompleted =>
        \A q \in Below(fs_start, source_path) :
            (/\ fs_start[q].kind = "file"
             /\ InReplica(q) \in DOMAIN fs_start
             /\ fs_start[InReplica(q)].kind = "file")
            => IF fs_start[InReplica(q)] # fs_start[q]
               THEN /\ Touched(InReplica(q))
                    /\ InReplica(q) \in DOMAIN fs
                    /\ fs[InReplica(q)] = fs[q]
               ELSE /\ ~Touched(InReplica(q))
                    /\ InReplica(q) \in DOMAIN fs
                    /\ fs[InReplica(q)] = fs_start[InReplica(q)]

\* C5 (error isolation): no failure of an operation on an entry leaves
\* remove_content or update_content as an exception.
ErrorIsolation == raised # "remove_content" /\ raised # "update_content"

\* C6 (failed hash is "not equal"): whenever file_hash failed on one of the
\* two files of a comparison, update_content went on to update_file for that
\* replica file.
HashFailureIsNotEqual ==
    \A i \in 1..Len(log) :
        log[i][1] = "Error hashing file" =>
            \E j \in (i + 1)..Len(log) :
                /\ log[j][1] \in {"Updated file", "Failed to update file"}
                /\ log[j][2] = IF StartsWith(log[i][2], source_path \o << SEP >>)
                               THEN replace(log[i][2], source_path, replica_path)
                               ELSE log[i][2]

\* C7 (change visibility): a cycle without ERROR that created, wrote or
\* removed a replica entry has CHANGED as the result of the pass that did it,
\* and its summary is "Synchronization completed successfully.".
ChangeVisibility ==
    (CycleCompleted /\ is_remove_successful # -1 /\ is_update_successful # -1) =>
        /\ (\E i \in 1..Len(ops) : ops[i][1] \in {"mkdir", "write"})
               => is_update_successful = 1
        /\ (\E i \in 1..Len(ops) : ops[i][1] = "rmdir")
               => is_remove_successful = 1
        /\ (\E i \in 1..Len(ops) : ops[i][1] # "chmod")
               => LastLine = "Synchronization completed successfully."

\* the result the aggregation rule gives a list of outcomes
Aggregate(results) ==
    IF \E i \in 1..Len(results) : results[i] = Error THEN Error
    ELSE IF \E i \in 1..Len(results) : results[i] = Changed THEN Changed
    ELSE Unchanged

\* C8 (aggregation correctness): calculate_operation_result returns ERROR if
\* any outcome of the list is ERROR, else CHANGED if any is CHANGED, else
\* UNCHANGED, and returns the same for the same outcomes in another order.
AggregationCorrectness ==
    pc = "returned" =>
        /\ results_out = Aggregate(results_in)
        /\ prev # << >> => results_out = prev[1]

AggregationWitness ==
    /\ pc = "returned"
    /\ results_in = << 0, 1, -1 >>
    /\ results_out = -1
    /\ prev = << -1 >>

\* C9 (a failed root listing is fatal to its cycle only): after list_files
\* failed on a root the loop of start goes on, so that a later call of
\* synchronize_folders begins: the process has a next step.
RootListingFatalToCycleOnly ==
    raised \in {"list_files(replica_path)", "list_files(source_path)"}
        => ENABLED Next

\* C10 (cycle classification): a completed cycle logs exactly one summary
\* line, its last line: "No changes were necessary." iff both results are
\* UNCHANGED, "Synchronization completed successfully." iff neither is ERROR
\* and one is CHANGED, "Errors occurred during synchronization." iff one is
\* ERROR; two empty trees give UNCHANGED twice and "No changes were
\* necessary.".
CycleClassification ==
    CycleCompleted =>
        /\ Cardinality({i \in 1..Len(log) : log[i][1] \in SummaryLines}) = 1
        /\ (LastLine = "No changes were necessary.")
               <=> (is_remove_successful = Unchanged
                      /\ is_update_successful = Unchanged)
        /\ (LastLine = "Synchronization completed successfully.")
               <=> (/\ is_remove_successful # Error
                    /\ is_update_successful # Error
                    /\ (is_remove_successful = Changed
                          \/ is_update_successful = Changed))
        /\ (LastLine = "Errors occurred during synchronization.")
               <=> (is_remove_successful = Error \/ is_update_successful = Error)
        /\ (Below(fs_start, source_path) = {} /\ Below(fs_start, replica_path) = {})
               => (/\ is_remove_successful = Unchanged
                   /\ is_update_successful = Unchanged
                   /\ LastLine = "No changes were necessary.")

ClassificationWitness ==
    /\ CycleCompleted
    /\ is_remove_successful = Changed
    /\ is_update_successful = Error
    /\ LastLine = "Errors occurred during synchronization."

\* C11 (prune safety): when the prune pass has returned, every replica
\* entry whose source counterpart existed when the cycle started is still
\* there and is as it was; the pass removed none of them.
PruneSafety ==
    pc = "update" =>
        \A q \in Below(fs_start, replica_path) :
            exists(World(fs_start), InSource(q)) =>
                /\ q \in DOMAIN fs
                /\ fs[q] = fs_start[q]
                /\ ~Touched(q)

(***************************************************************************)
(* Roots given as relative paths.  The process runs in cwd, so "./s"       *)
(* names the directory /s; list_files returns absolute paths whatever the  *)
(* form of the root it is given.                                           *)
(***************************************************************************)
RelRootPairs == {<< << ".", SEP, "s" >>, << ".", SEP, "r" >> >>}

InitRel ==
    /\ \E roots \in RelRootPairs :
         source_path = roots[1] /\ replica_path = roots[2]
    /\ \E roots \in SUBSET {abspath(source_path), abspath(replica_path)} :
       \E P \in PathSets(roots, MaxEntries) :
       \E f \in [P -> Entries] :
         /\ WellFormed(P, f)
         /\ fs = [q \in roots \cup P |-> IF q \in roots THEN Dir(7) ELSE f[q]]
    /\ fs_start = fs
    /\ pc = "sync"
    /\ is_remove_successful = 0
    /\ is_update_successful = 0
    /\ log = << >>
    /\ ops = << >>
    /\ raised = "none"
    /\ prev = << >>
    /\ results_in = << >>
    /\ results_out = 0

\* the process started with roots of either form
InitRoots == Init \/ InitRel

RootsSpec == InitRoots /\ [][Next]_vars

\* the directories the two roots name
SourceDir == abspath(source_path)
ReplicaDir == abspath(replica_path)

\* C12 (counterpart computation): for every entry below the source root of a
\* cycle whose two passes have run, the replica path update_content computes
\* is the replica root followed by the entry's path relative to the source
\* root, and the source path remove_content computes for an entry below the
\* replica root is the source root followed by its relative path, whatever
\* the entry's name and whether the roots were given absolute or relative;
\* so different entries have different counterparts.
CounterpartComputation ==
    pc = "summary" =>
        /\ \A q \in Below(fs_start, SourceDir) :
               entry_replica_path(q) = ReplicaDir \o Rel(q, SourceDir)
        /\ \A q \in Below(fs_start, ReplicaDir) :
               entry_source_path(q) = SourceDir \o Rel(q, ReplicaDir)
        /\ \A q1, q2 \in Below(fs_start, SourceDir) :
               q1 # q2 => entry_replica_path(q1) # entry_replica_path(q2)

\* C13 (prune/mirror ordering): the mirror pass starts from what the prune
\* pass left and adds its operations after those of the prune pass; no path
\* the prune pass deleted exists again after the mirror pass, and every path
\* the mirror pass creates, writes, removes or sets the mode of lies below
\* the replica root and has a source entry at its relative path.
PruneBeforeMirror ==
    [][pc = "update" =>
        /\ Len(ops) <= Len(ops') /\ SubSeq(ops', 1, Len(ops)) = ops
        /\ \A q \in DOMAIN fs_start \ DOMAIN fs : q \notin DOMAIN fs'
        /\ \A i \in (Len(ops) + 1)..Len(ops') :
               /\ StartsWith(ops'[i][2], replica_path \o << SEP >>)
               /\ InSource(ops'[i][2]) \in DOMAIN fs]_vars

\* C14 (atomic update): after the mirror pass, every replica file that
\* update_file was called for, whether it returned CHANGED or ERROR, exists
\* and is either what it was when the cycle started or a copy (content and
\* permission bits) of its source file.
AtomicUpdate ==
    pc = "summary" =>
        \A i \in 1..Len(log) :
            log[i][1] \in {"Updated file", "Failed to update file"} =>
                /\ log[i][2] \in DOMAIN fs
                /\ \/ /\ log[i][2] \in DOMAIN fs_start
                      /\ fs[log[i][2]] = fs_start[log[i][2]]
                   \/ \E q \in Below(fs_start, source_path) :
                          /\ entry_replica_path(q) = log[i][2]
                          /\ fs[log[i][2]] = fs_start[q]

\* the entries at and below the source root
SourceTree(f) ==
    [q \in {c \in DOMAIN f : c = SourceDir \/ StartsWith(c, SourceDir \o << SEP >>)}
        |-> f[q]]

\* a mutating system call that succeeded at or below the source root
SourceOps(kinds) ==
    {i \in 1..Len(ops) :
        /\ ops[i][1] \in kinds
        /\ ops[i][2] = SourceDir \/ StartsWith(ops[i][2], SourceDir \o << SEP >>)}

=============================================================================
